---- MODULE Spec2Model ----
(***************************************************************************)
(* Model of src/main.py: the DataWarehouse stage of the pipeline           *)
(* (read_from_db, get_mysql_field, create_query, create_db_mysql,          *)
(* load_transformed, execute) together with the DataLake operation that    *)
(* feeds it (insert_data).                                                 *)
(*                                                                         *)
(* Python strings are TLA+ strings; a Python exception is a result with    *)
(* raised = TRUE and the exception's class in error.                       *)
(***************************************************************************)
EXTENDS Integers, Sequences, FiniteSets, TLC

VARIABLES
    store,       \* the documents of the Mongo collection, in insertion order
    sinkTables,  \* names of the tables that exist in the MySQL sink
    sinkRows,    \* rows held by the sink table, in insertion order
    batch,       \* the records handed to the pure functions (SpecInfer)
    pc,          \* position of DataWarehouse.execute: idle, fetched, connected
    data,        \* local variable data of execute (line 362)
    result,      \* the last call made on the DataWarehouse and its outcome
    prev         \* the create_query / load_transformed call made before it

vars == <<store, sinkTables, sinkRows, batch, pc, data, result, prev>>

----------------------------------------------------------------------------
(* Bounds of the model *)

MaxRecords == 2

(* Program constants *)

DefaultLength == 100
MaxLength == 10000

----------------------------------------------------------------------------
(* Strings *)

UpperAlphabet == "ABCDEFGHIJKLMNOPQRSTUVWXYZ"
LowerAlphabet == "abcdefghijklmnopqrstuvwxyz"

Char(s, i) == SubSeq(s, i, i)

UpperChars == { Char(UpperAlphabet, i) : i \in 1..Len(UpperAlphabet) }

LowerMap ==
    [c \in UpperChars |->
        Char(LowerAlphabet, CHOOSE i \in 1..Len(UpperAlphabet) : Char(UpperAlphabet, i) = c)]

LowerChar(c) == IF c \in UpperChars THEN LowerMap[c] ELSE c

RECURSIVE Lower(_)
Lower(s) ==
    IF Len(s) = 0 THEN ""
    ELSE LowerChar(Char(s, 1)) \o Lower(SubSeq(s, 2, Len(s)))

\* Python's  sub in s
Contains(s, sub) ==
    \E i \in 1..(Len(s) - Len(sub) + 1) : SubSeq(s, i, i + Len(sub) - 1) = sub

RECURSIVE Join(_, _)
Join(sep, parts) ==
    IF Len(parts) = 0 THEN ""
    ELSE IF Len(parts) = 1 THEN parts[1]
    ELSE parts[1] \o sep \o Join(sep, Tail(parts))

Returned(v) == [raised |-> FALSE, error |-> "", value |-> v]
Raised(e) == [raised |-> TRUE, error |-> e, value |-> ""]

----------------------------------------------------------------------------
(* get_mysql_field *)

get_mysql_field_no_clamp(type, length) ==
    LET t == Lower(type) IN
    IF Contains(t, "int") THEN Returned("INT")
    ELSE IF Contains(t, "float") THEN Returned("DOUBLE")
    ELSE IF Contains(t, "object") THEN
        Returned("VARCHAR(" \o ToString(IF length = 0 THEN DefaultLength ELSE length) \o ")")
    ELSE IF Contains(t, "datetime") THEN Returned("DATETIME")
    ELSE IF Contains(t, "date") THEN Returned("DATE")
    ELSE IF Contains(t, "bool") THEN Returned("BOOL")
    ELSE Raised("ValueError")

get_mysql_field_date_first(type, length) ==
    LET t == Lower(type) IN
    IF Contains(t, "int") THEN Returned("INT")
    ELSE IF Contains(t, "float") THEN Returned("DOUBLE")
    ELSE IF Contains(t, "object") THEN
        Returned("VARCHAR(" \o ToString(IF length = 0 THEN DefaultLength
                                        ELSE IF length > MaxLength THEN MaxLength
                                        ELSE length) \o ")")
    ELSE IF Contains(t, "date") THEN Returned("DATE")
    ELSE IF Contains(t, "datetime") THEN Returned("DATETIME")
    ELSE IF Contains(t, "bool") THEN Returned("BOOL")
    ELSE Raised("ValueError")

get_mysql_field_text_fallback(type, length) ==
    LET t == Lower(type) IN
    IF Contains(t, "int") THEN Returned("INT")
    ELSE IF Contains(t, "float") THEN Returned("DOUBLE")
    ELSE IF Contains(t, "object") THEN
        Returned("VARCHAR(" \o ToString(IF length = 0 THEN DefaultLength
                                        ELSE IF length > MaxLength THEN MaxLength
                                        ELSE length) \o ")")
    ELSE IF Contains(t, "datetime") THEN Returned("DATETIME")
    ELSE IF Contains(t, "date") THEN Returned("DATE")
    ELSE IF Contains(t, "bool") THEN Returned("BOOL")
    ELSE Returned("TEXT")

\* lines 273-294: the label is lower-cased, then the first matching branch wins
get_mysql_field(type, length) ==
    LET t == Lower(type) IN
    IF Contains(t, "int") THEN Returned("INT")
    ELSE IF Contains(t, "float") THEN Returned("DOUBLE")
    ELSE IF Contains(t, "object") THEN
        Returned("VARCHAR(" \o ToString(IF length = 0 THEN DefaultLength
                                        ELSE IF length > MaxLength THEN MaxLength
                                        ELSE length) \o ")")
    ELSE IF Contains(t, "datetime") THEN Returned("DATETIME")
    ELSE IF Contains(t, "date") THEN Returned("DATE")
    ELSE IF Contains(t, "bool") THEN Returned("BOOL")
    ELSE Raised("ValueError")

----------------------------------------------------------------------------
(* Values, records and data frames *)

\* A scalar of a record.  text is the scalar's str(); a str value is its
\* unit repeated times times, so that len(str(v)) = Len(text) * times.
Value(kind, text, times) == [kind |-> kind, text |-> text, times |-> times]

None == Value("none", "None", 1)
NaN == Value("nan", "nan", 1)
StrV(s) == Value("str", s, 1)
IntV(s) == Value("int", s, 1)
FloatV(s) == Value("float", s, 1)
ComplexV(s) == Value("complex", s, 1)
LongStr == Value("str", "x", MaxLength + 1)

Field(f, v) == [field |-> f, value |-> v]

\* The records the batches are built from (ordered field -> value mappings)
Records ==
    { <<Field("id", IntV("1")), Field("name", StrV("Ana")), Field("amt", FloatV("12.5"))>>,
      <<Field("id", IntV("2")), Field("name", StrV("Bartholomew")), Field("amt", IntV("7"))>>,
      <<Field("name", StrV("")), Field("id", IntV("1"))>>,
      <<Field("name", None)>>,
      <<Field("name", LongStr), Field("id", IntV("2"))>>,
      <<Field("z", ComplexV("(1+2j)")), Field("id", IntV("1"))>> }

Batches == UNION { [1..n -> Records] : n \in 0..MaxRecords }

TableNames == {"t"}

Keys(rec) == [i \in 1..Len(rec) |-> rec[i].field]

HasKey(rec, f) == \E i \in 1..Len(rec) : rec[i].field = f

\* the value of f in rec; pandas fills a missing key with NaN
Get(rec, f) ==
    IF HasKey(rec, f)
    THEN rec[CHOOSE i \in 1..Len(rec) : rec[i].field = f].value
    ELSE NaN

RECURSIVE AppendNew(_, _)
AppendNew(seen, keys) ==
    IF Len(keys) = 0 THEN seen
    ELSE IF \E i \in 1..Len(seen) : seen[i] = Head(keys)
         THEN AppendNew(seen, Tail(keys))
         ELSE AppendNew(Append(seen, Head(keys)), Tail(keys))

RECURSIVE ColumnNames(_)
ColumnNames(recs) ==
    IF Len(recs) = 0 THEN <<>>
    ELSE AppendNew(ColumnNames(SubSeq(recs, 1, Len(recs) - 1)), Keys(recs[Len(recs)]))

\* the dtype pandas gives a column holding these scalars
InferDtype(cells) ==
    LET K == { cells[i].kind : i \in 1..Len(cells) } IN
    IF K \cap {"str", "oid"} # {} THEN "object"
    ELSE IF K \subseteq {"none", "nan"} THEN "object"
    ELSE IF "complex" \in K THEN "complex128"
    ELSE IF K \cap {"float", "none", "nan"} # {} THEN "float64"
    ELSE "int64"

\* the scalar as the column stores it
Stored(v, dtype) ==
    IF dtype = "float64" /\ v.kind = "int" THEN FloatV(v.text \o ".0")
    ELSE IF dtype \in {"float64", "complex128"} /\ v.kind = "none" THEN NaN
    ELSE v

\* pd.DataFrame(list of dicts): one column per key, in first-seen order
DataFrame(recs) ==
    LET names == ColumnNames(recs) IN
    [c \in 1..Len(names) |->
        LET raw == [r \in 1..Len(recs) |-> Get(recs[r], names[c])]
            dt == InferDtype(raw)
        IN [name |-> names[c], dtype |-> dt,
            cells |-> [r \in 1..Len(recs) |-> Stored(raw[r], dt)]]]

----------------------------------------------------------------------------
(* create_query *)

\* Series.astype(str).str.len()
StrLen(v) == Len(v.text) * v.times

SetMax(S) == CHOOSE m \in S : \A x \in S : x <= m
SetMin(S) == CHOOSE m \in S : \A x \in S : m <= x

ColumnLength_min(col) ==
    SetMin({ StrLen(col.cells[r]) : r \in 1..Len(col.cells) })

\* line 316: df[field].astype(str).str.len().max()
ColumnLength(col) ==
    SetMax({ StrLen(col.cells[r]) : r \in 1..Len(col.cells) })

FieldSeparator_space == ", "

\* line 312
FieldSeparator == ",\n"

FieldTypes_reversed(df) ==
    [i \in 1..Len(df) |->
        [field |-> df[Len(df) + 1 - i].name,
         type |-> get_mysql_field(df[Len(df) + 1 - i].dtype, ColumnLength(df[Len(df) + 1 - i]))]]

\* lines 313-318: one entry per column of df.dtypes, in column order
FieldTypes(df) ==
    [i \in 1..Len(df) |->
        [field |-> df[i].name,
         type |-> get_mysql_field(df[i].dtype, ColumnLength(df[i]))]]

Statement(table_name, fts) ==
    "CREATE TABLE IF NOT EXISTS " \o table_name \o " ("
        \o Join(FieldSeparator, [i \in 1..Len(fts) |-> fts[i].field \o " " \o fts[i].type.value])
        \o ");"

create_query_skip_unknown(df, table_name) ==
    LET fts == FieldTypes(df) IN
    Returned(Statement(table_name, SelectSeq(fts, LAMBDA ft : ~ft.type.raised)))

\* lines 312-322: the first column whose type is unknown raises out of the
\* list comprehension; otherwise the fields are joined and formatted
create_query(df, table_name) ==
    LET fts == FieldTypes(df) IN
    IF \E i \in 1..Len(fts) : fts[i].type.raised
    THEN Raised(fts[CHOOSE i \in 1..Len(fts) :
                      /\ fts[i].type.raised
                      /\ \A j \in 1..(i - 1) : ~fts[j].type.raised].type.error)
    ELSE Returned(Statement(table_name, fts))

----------------------------------------------------------------------------
(* Calls and their outcomes *)

NoArg == [table |-> "", type |-> "", length |-> 0, filters |-> <<>>]

NoCall ==
    [op |-> "none", batch |-> <<>>, arg |-> NoArg, status |-> "none",
     error |-> "", value |-> "", calls |-> <<>>, rows |-> <<>>]

\* rows: the sink's rows when the call ended
Call(op, b, arg, r, calls, rows) ==
    [op |-> op, batch |-> b, arg |-> arg,
     status |-> IF r.raised THEN "raised" ELSE "returned",
     error |-> r.error, value |-> r.value, calls |-> calls, rows |-> rows]

\* prev keeps the last create_query / load_transformed call
Remember ==
    IF result.op \in {"create_query", "load_transformed"} THEN result ELSE prev

SubBatch(b, S) == SelectSeq([i \in 1..Len(b) |-> <<i, b[i]>>], LAMBDA p : p[1] \in S)

Project(b, S) == LET ps == SubBatch(b, S) IN [i \in 1..Len(ps) |-> ps[i][2]]

Labels ==
    {"int64", "float64", "object", "datetime64[ns]", "date", "bool", "string",
     "complex128", "Int64", "category", "interval[float64]", "timedelta64[ns]",
     "boolean", "str"}

Lengths == {0, 1, 11, DefaultLength, DefaultLength + 1, MaxLength - 1, MaxLength, MaxLength + 1}

----------------------------------------------------------------------------
(* The document store *)

\* str(ObjectId) is 24 hexadecimal digits
ObjectId(n) == Value("oid", "65a1f00000000000000000" \o ToString(10 + n), 1)

\* line 138: insert_one adds the _id key in front of the document's keys
insert_one(docs, rec) == Append(docs, <<Field("_id", ObjectId(Len(docs)))>> \o rec)

\* the records inserted into the collection
Documents ==
    { rec \in Records : \A i \in 1..Len(rec) : rec[i].value \notin {StrV(""), LongStr} }

Filters == { <<>>, <<Field("id", IntV("1"))>>, <<Field("id", IntV("9"))>> }

Matches(doc, filters) ==
    \A i \in 1..Len(filters) :
        HasKey(doc, filters[i].field) /\ Get(doc, filters[i].field) = filters[i].value

\* Collection.find(filters): the matching documents, in insertion order
MongoFind(docs, filters) == SelectSeq(docs, LAMBDA d : Matches(d, filters))

\* lines 213-216: from_mongo, whose filters parameter defaults to {}
from_mongo(docs, filters) == MongoFind(docs, filters)

\* lines 211-218: from_mongo is called without filters, so its default {}
\* is what reaches find; up = FALSE is a store that cannot be reached
read_from_db(docs, filters, up) ==
    IF up THEN Returned(DataFrame(from_mongo(docs, <<>>)))
    ELSE Raised("ServerSelectionTimeoutError")

----------------------------------------------------------------------------
(* The relational sink *)

GpsTable == "gps_data"

\* lines 254-255: the statement is built first; cursor.execute runs only
\* when create_query returned one.  accepts = FALSE is a sink that rejects
\* the statement.
create_db_mysql(tables, df, name, accepts) ==
    LET q == create_query(df, name) IN
    IF q.raised THEN [r |-> q, calls |-> <<>>, tables |-> tables]
    ELSE IF accepts
    THEN [r |-> Returned("None"), calls |-> <<"execute">>, tables |-> tables \cup {name}]
    ELSE [r |-> Raised("ProgrammingError"), calls |-> <<"execute">>, tables |-> tables]

\* names the f-string of lines 335-340 reads
InsertQueryNames == {"table_name", "columns", "values"}

\* names load_transformed can resolve: its parameters and the module's globals
LoadScope == {"self", "conncursor", "data", "DataLake", "DataWarehouse", "pipeline"}

\* data.itertuples(index=False, name=None)
Tuples(df) ==
    IF Len(df) = 0 THEN <<>>
    ELSE [r \in 1..Len(df[1].cells) |-> [c \in 1..Len(df) |-> df[c].cells[r]]]

\* lines 335-355: building insert_query raises NameError before the cursor
\* is touched.  Past it, executemany inserts every tuple: the table that
\* create_query creates has no unique key for ON DUPLICATE KEY to act on.
load_transformed(rows, df) ==
    IF ~(InsertQueryNames \subseteq LoadScope)
    THEN [r |-> Raised("NameError"), calls |-> <<>>, rows |-> rows]
    ELSE [r |-> Returned("None"), calls |-> <<"executemany", "commit">>,
          rows |-> rows \o Tuples(df)]

----------------------------------------------------------------------------
(* Operations *)

\* DataLake.insert_data, lines 126-138
insert_data(rec) ==
    /\ pc = "idle"
    /\ Len(store) < MaxRecords
    /\ store' = insert_one(store, rec)
    /\ UNCHANGED <<sinkTables, sinkRows, batch, pc, data, result, prev>>

read_from_db_call(filters, up) ==
    /\ pc = "idle"
    /\ result' = Call("read_from_db", store, [NoArg EXCEPT !.filters = filters],
                      read_from_db(store, filters, up), <<"find">>, sinkRows)
    /\ prev' = Remember
    /\ UNCHANGED <<store, sinkTables, sinkRows, batch, pc, data>>

create_db_mysql_call(accepts) ==
    /\ pc = "idle"
    /\ LET c == create_db_mysql(sinkTables, DataFrame(store), GpsTable, accepts) IN
       /\ result' = Call("create_db_mysql", store, [NoArg EXCEPT !.table = GpsTable],
                         c.r, c.calls, sinkRows)
       /\ sinkTables' = c.tables
    /\ prev' = Remember
    /\ UNCHANGED <<store, sinkRows, batch, pc, data>>

load_transformed_call ==
    /\ pc = "idle"
    /\ LET l == load_transformed(sinkRows, DataFrame(store)) IN
       /\ result' = Call("load_transformed", store, NoArg, l.r, l.calls, l.rows)
       /\ sinkRows' = l.rows
    /\ prev' = Remember
    /\ UNCHANGED <<store, sinkTables, batch, pc, data>>

get_mysql_field_call(type, length) ==
    /\ pc = "idle"
    /\ result' = Call("get_mysql_field", <<>>,
                      [NoArg EXCEPT !.type = type, !.length = length],
                      get_mysql_field(type, length), <<>>, sinkRows)
    /\ prev' = Remember
    /\ UNCHANGED <<store, sinkTables, sinkRows, batch, pc, data>>

create_query_call(S, table_name) ==
    /\ pc = "idle"
    /\ LET b == Project(batch, S) IN
       result' = Call("create_query", b, [NoArg EXCEPT !.table = table_name],
                      create_query(DataFrame(b), table_name), <<>>, sinkRows)
    /\ prev' = Remember
    /\ UNCHANGED <<store, sinkTables, sinkRows, batch, pc, data>>

InitInfer ==
    /\ store = <<>>
    /\ sinkTables = {}
    /\ sinkRows = <<>>
    /\ batch \in Batches
    /\ pc = "idle"
    /\ data = <<>>
    /\ result = NoCall
    /\ prev = NoCall

NextInfer ==
    \E S \in SUBSET (1..Len(batch)), table_name \in TableNames :
        create_query_call(S, table_name)

\* create_query applied to the sub-batches of a batch
SpecInfer == InitInfer /\ [][NextInfer]_vars

----------------------------------------------------------------------------
(* DataWarehouse.execute, lines 357-365 *)

\* parameters of create_db_mysql after self (line 240)
create_db_mysql_params == <<"cursor", "data", "name">>

\* arguments line 364 passes to it
execute_create_args == <<>>

\* Python binds a call only when every required parameter gets an argument
Binds(params, args) == Len(args) = Len(params)

Running(calls) ==
    [op |-> "execute", batch |-> store, arg |-> NoArg, status |-> "running",
     error |-> "", value |-> "", calls |-> calls, rows |-> sinkRows]

Finish(status, error, calls, rows) ==
    /\ result' = [result EXCEPT !.status = status, !.error = error,
                                !.calls = result.calls \o calls, !.rows = rows]
    /\ pc' = "idle"
    /\ data' = <<>>

\* lines 361-362: the handles are made without contacting the store, then
\* the collection is read with filters={}
execute_fetch(up) ==
    /\ pc = "idle"
    /\ prev' = Remember
    /\ LET r == read_from_db(store, <<>>, up) IN
       IF r.raised
       THEN /\ result' = [Running(<<"read_from_db">>) EXCEPT
                              !.status = "raised", !.error = r.error]
            /\ UNCHANGED <<pc, data>>
       ELSE /\ result' = Running(<<"read_from_db", "read_from_db.ok">>)
            /\ pc' = "fetched"
            /\ data' = r.value
    /\ UNCHANGED <<store, sinkTables, sinkRows, batch>>

\* line 363; up = FALSE is a sink that refuses the connection
execute_connect(up) ==
    /\ pc = "fetched"
    /\ IF up
       THEN /\ result' = [result EXCEPT !.calls = @ \o <<"connect_to_mysql", "connect_to_mysql.ok">>]
            /\ pc' = "connected"
            /\ UNCHANGED data
       ELSE Finish("raised", "InterfaceError", <<"connect_to_mysql">>, sinkRows)
    /\ UNCHANGED <<store, sinkTables, sinkRows, batch, prev>>

execute_create_load_ignore_failure(accepts) ==
    /\ pc = "connected"
    /\ LET l == load_transformed(sinkRows, data) IN
       /\ Finish(IF l.r.raised THEN "raised" ELSE "returned", l.r.error,
                 <<"create_db_mysql", "load_transformed">> \o l.calls, l.rows)
       /\ sinkRows' = l.rows
    /\ UNCHANGED <<store, sinkTables, batch, prev>>

\* lines 364-365: create_db_mysql() is called with no arguments, which
\* Python refuses with TypeError before the method body runs; line 365 is
\* reached only when line 364 returns
execute_create_load(accepts) ==
    /\ pc = "connected"
    /\ IF ~Binds(create_db_mysql_params, execute_create_args)
       THEN /\ Finish("raised", "TypeError", <<"create_db_mysql">>, sinkRows)
            /\ UNCHANGED <<sinkTables, sinkRows>>
       ELSE LET c == create_db_mysql(sinkTables, data, GpsTable, accepts) IN
            IF c.r.raised
            THEN /\ Finish("raised", c.r.error, <<"create_db_mysql">> \o c.calls, sinkRows)
                 /\ sinkTables' = c.tables
                 /\ UNCHANGED sinkRows
            ELSE LET l == load_transformed(sinkRows, data) IN
                 /\ Finish(IF l.r.raised THEN "raised" ELSE "returned", l.r.error,
                           <<"create_db_mysql">> \o c.calls \o <<"create_db_mysql.ok", "load_transformed">>
                               \o l.calls \o (IF l.r.raised THEN <<>> ELSE <<"load_transformed.ok">>),
                           l.rows)
                 /\ sinkTables' = c.tables
                 /\ sinkRows' = l.rows
    /\ UNCHANGED <<store, batch, prev>>

Init ==
    /\ store = <<>>
    /\ sinkTables = {}
    /\ sinkRows = <<>>
    /\ batch = <<>>
    /\ pc = "idle"
    /\ data = <<>>
    /\ result = NoCall
    /\ prev = NoCall

Next ==
    \/ \E rec \in Documents : insert_data(rec)
    \/ \E filters \in Filters, up \in BOOLEAN : read_from_db_call(filters, up)
    \/ \E accepts \in BOOLEAN : create_db_mysql_call(accepts)
    \/ load_transformed_call
    \/ \E up \in BOOLEAN : execute_fetch(up)
    \/ \E up \in BOOLEAN : execute_connect(up)
    \/ \E accepts \in BOOLEAN : execute_create_load(accepts)

\* the store, the sink and the warehouse operations
Spec == Init /\ [][Next]_vars

InitField ==
    /\ store = <<>>
    /\ sinkTables = {}
    /\ sinkRows = <<>>
    /\ batch = <<>>
    /\ pc = "idle"
    /\ data = <<>>
    /\ result = NoCall
    /\ prev = NoCall

NextField ==
    \E type \in Labels, length \in Lengths : get_mysql_field_call(type, length)

\* get_mysql_field applied to kind labels and lengths
SpecField == InitField /\ [][NextField]_vars

----------------------------------------------------------------------------
(* Reading a statement back *)

StartsWith(s, pre) == Len(s) >= Len(pre) /\ SubSeq(s, 1, Len(pre)) = pre

IndexOf(s, sub) ==
    CHOOSE i \in 1..(Len(s) - Len(sub) + 1) :
        /\ SubSeq(s, i, i + Len(sub) - 1) = sub
        /\ \A j \in 1..(i - 1) : SubSeq(s, j, j + Len(sub) - 1) # sub

RECURSIVE Split(_, _)
Split(s, sep) ==
    IF s = "" THEN <<>>
    ELSE IF ~Contains(s, sep) THEN <<s>>
    ELSE LET i == IndexOf(s, sep) IN
         <<SubSeq(s, 1, i - 1)>> \o Split(SubSeq(s, i + Len(sep), Len(s)), sep)

Digits == "0123456789"

DigitValue(c) == (CHOOSE i \in 1..Len(Digits) : Char(Digits, i) = c) - 1

RECURSIVE ParseNat(_)
ParseNat(s) ==
    IF Len(s) = 0 THEN 0
    ELSE 10 * ParseNat(SubSeq(s, 1, Len(s) - 1)) + DigitValue(Char(s, Len(s)))

StatementHead(table_name) == "CREATE TABLE IF NOT EXISTS " \o table_name \o " ("

\* the column definitions of a statement, split at sep: <<name, type>> pairs
ColumnDefs(stmt, table_name, sep) ==
    LET inner == SubSeq(stmt, Len(StatementHead(table_name)) + 1, Len(stmt) - 2)
        defs == Split(inner, sep)
    IN [i \in 1..Len(defs) |->
           LET sp == IndexOf(defs[i], " ") IN
           <<SubSeq(defs[i], 1, sp - 1), SubSeq(defs[i], sp + 1, Len(defs[i]))>>]

QueryColumns == ColumnDefs(result.value, result.arg.table, ",\n")

\* the type the statement of call c gives column f
TypeOf(c, f) ==
    LET defs == ColumnDefs(c.value, c.arg.table, ",\n") IN
    defs[CHOOSE i \in 1..Len(defs) : defs[i][1] = f][2]

\* the n of VARCHAR(n)
WidthOf(c, f) ==
    LET t == TypeOf(c, f) IN ParseNat(SubSeq(t, Len("VARCHAR(") + 1, Len(t) - 1))

QueryReturned(c) == c.op = "create_query" /\ c.status = "returned"

\* the STRING columns of a batch: those pandas types object
StringFields(b) ==
    LET df == DataFrame(b) IN
    { df[i].name : i \in { j \in 1..Len(df) : df[j].dtype = "object" } }

\* the scalars of field f over the records of b, a missing key being NaN
CellsOf(b, f) == { Get(b[r], f) : r \in 1..Len(b) }

IsNull(v) == v.kind \in {"none", "nan"}

\* the longest str() among the scalars of f
MaxSerialized(b, f) ==
    LET L == { Len(v.text) * v.times : v \in CellsOf(b, f) } IN
    CHOOSE m \in L : \A x \in L : x <= m

----------------------------------------------------------------------------
(* C4: get_mysql_field on recognized kind labels *)

\* the precedence table of the claim: substring, type token
ClaimedPrecedence ==
    << <<"int", "INT">>, <<"float", "DOUBLE">>, <<"object", "VARCHAR(">>,
       <<"string", "VARCHAR(">>, <<"datetime", "DATETIME">>, <<"date", "DATE">>,
       <<"bool", "BOOL">> >>

\* the table the code implements: "string" is not in it
CodePrecedence ==
    SelectSeq(ClaimedPrecedence, LAMBDA e : e[1] # "string")

Recognized(label, table) == \E i \in 1..Len(table) : Contains(label, table[i][1])

FirstMatch(label, table) ==
    table[CHOOSE i \in 1..Len(table) :
            /\ Contains(label, table[i][1])
            /\ \A j \in 1..(i - 1) : ~Contains(label, table[j][1])][2]

\* a VARCHAR token carries its width, the other tokens are exact
IsToken(value, token) ==
    IF token = "VARCHAR("
    THEN StartsWith(value, token) /\ Char(value, Len(value)) = ")"
    ELSE value = token

\* C4 as claimed: a label containing "int", "float", "object", "string",
\* "datetime", "date" or "bool" never raises and gets the token of the
\* first of them, in that order, that it contains.
C4_RecognizedLabelGetsFirstMatch ==
    (result.op = "get_mysql_field" /\ Recognized(result.arg.type, ClaimedPrecedence)) =>
        /\ result.status = "returned"
        /\ IsToken(result.value, FirstMatch(result.arg.type, ClaimedPrecedence))

\* C4 as amended: the label is matched in lower case against "int",
\* "float", "object", "datetime", "date", "bool" in that order; a label
\* that contains one of them never raises and gets the token of the first
\* match, and a label that contains none of them (such as "string")
\* raises ValueError.
C4_LoweredLabelGetsFirstMatch ==
    result.op = "get_mysql_field" =>
        IF Recognized(Lower(result.arg.type), CodePrecedence)
        THEN /\ result.status = "returned"
             /\ IsToken(result.value, FirstMatch(Lower(result.arg.type), CodePrecedence))
        ELSE result.status = "raised" /\ result.error = "ValueError"

C4_Witness ==
    /\ result.op = "get_mysql_field"
    /\ result.arg.type = "datetime64[ns]"
    /\ result.status = "returned"
    /\ result.value = "DATETIME"

----------------------------------------------------------------------------
(* C6: the width of a STRING column *)

Clamp(n) == IF n > MaxLength THEN MaxLength ELSE n

\* C6 as claimed: the width of every STRING column is the longest
\* serialized value, replaced by 100 when the column has no non-null value,
\* clamped to 10,000.
C6_WidthDefaultsWhenAllNull ==
    QueryReturned(result) =>
        \A f \in StringFields(result.batch) :
            WidthOf(result, f) =
                Clamp(IF \A v \in CellsOf(result.batch, f) : IsNull(v)
                      THEN DefaultLength
                      ELSE MaxSerialized(result.batch, f))

\* C6 as amended: the width of every STRING column is the longest
\* serialized value, a null counting with its text (None, nan), replaced
\* by 100 when that length is 0 and clamped to 10,000; it is never above
\* 10,000 and never below the longest value unless that exceeds 10,000.
C6_WidthDefaultsWhenZero ==
    QueryReturned(result) =>
        \A f \in StringFields(result.batch) :
            LET m == MaxSerialized(result.batch, f)
                w == WidthOf(result, f)
            IN /\ w = Clamp(IF m = 0 THEN DefaultLength ELSE m)
               /\ w <= MaxLength
               /\ m <= MaxLength => w >= m

C6_Witness ==
    /\ QueryReturned(result)
    /\ "name" \in StringFields(result.batch)
    /\ MaxSerialized(result.batch, "name") > MaxLength
    /\ WidthOf(result, "name") = MaxLength

----------------------------------------------------------------------------
(* C7: width monotonicity *)

\* b1's records are among b2's
IsSubBatch(b1, b2) ==
    \E S \in SUBSET (1..Len(b2)) : Project(b2, S) = b1

Comparable ==
    /\ QueryReturned(prev)
    /\ QueryReturned(result)
    /\ IsSubBatch(prev.batch, result.batch)

\* C7 as claimed: for batches B1 within B2 sharing a STRING field f, the
\* width of f from B2 is at least the width of f from B1, and both are at
\* most 10,000.
C7_WidthMonotone ==
    Comparable =>
        \A f \in StringFields(prev.batch) \cap StringFields(result.batch) :
            /\ WidthOf(result, f) >= WidthOf(prev, f)
            /\ WidthOf(result, f) <= MaxLength
            /\ WidthOf(prev, f) <= MaxLength

\* C7 as amended: the same, for a field f whose longest serialized value
\* in B1 is not empty (an f whose values in B1 are all empty strings gets
\* the default 100, and a longer batch may get less).
C7_WidthMonotoneWhenNotDefaulted ==
    Comparable =>
        \A f \in StringFields(prev.batch) \cap StringFields(result.batch) :
            /\ MaxSerialized(prev.batch, f) > 0 => WidthOf(result, f) >= WidthOf(prev, f)
            /\ WidthOf(result, f) <= MaxLength
            /\ WidthOf(prev, f) <= MaxLength

C7_Witness ==
    /\ Comparable
    /\ Len(prev.batch) < Len(result.batch)
    /\ "name" \in StringFields(prev.batch) \cap StringFields(result.batch)
    /\ MaxSerialized(prev.batch, "name") > 0
    /\ WidthOf(result, "name") > WidthOf(prev, "name")

----------------------------------------------------------------------------
(* C8: the statement of the example batch *)

ExampleBatch ==
    << <<Field("id", IntV("1")), Field("name", StrV("Ana")), Field("amt", FloatV("12.5"))>>,
       <<Field("id", IntV("2")), Field("name", StrV("Bartholomew")), Field("amt", IntV("7"))>> >>

IsExampleCall ==
    result.op = "create_query" /\ result.batch = ExampleBatch /\ result.arg.table = "t"

\* C8 as claimed: the name column of the example batch, whose longest
\* value has 11 characters, gets width 100, and create_query returns the
\* statement below, its columns separated by a comma and a space.
C8_ExampleStatementPadded ==
    IsExampleCall =>
        /\ result.status = "returned"
        /\ result.value =
               "CREATE TABLE IF NOT EXISTS t (id INT, name VARCHAR(100), amt DOUBLE);"

\* C8 as amended: a STRING column whose longest value is shorter than 100
\* and not empty gets that length as its width, and the example batch
\* gives the statement below, its columns separated by a comma and a line
\* break.
C8_ExampleStatementExact ==
    /\ IsExampleCall =>
           /\ result.status = "returned"
           /\ result.value =
                  "CREATE TABLE IF NOT EXISTS t (id INT,\nname VARCHAR(11),\namt DOUBLE);"
    /\ QueryReturned(result) =>
           \A f \in StringFields(result.batch) :
               LET m == MaxSerialized(result.batch, f) IN
               (0 < m /\ m < DefaultLength) =>
                   Contains(result.value, f \o " VARCHAR(" \o ToString(m) \o ")")

C8_Witness ==
    /\ IsExampleCall
    /\ result.status = "returned"
    /\ Contains(result.value, "name VARCHAR(11)")

----------------------------------------------------------------------------
(* C10: one column per field, in first-seen order *)

FieldsOf(b) == UNION { { b[r][k].field : k \in 1..Len(b[r]) } : r \in 1..Len(b) }

\* where f is first seen in b: <<record, key>>
FirstSeen(b, f) ==
    LET r == CHOOSE x \in 1..Len(b) :
                 HasKey(b[x], f) /\ \A y \in 1..(x - 1) : ~HasKey(b[y], f)
    IN <<r, CHOOSE k \in 1..Len(b[r]) : b[r][k].field = f>>

SeenBefore(p, q) == p[1] < q[1] \/ (p[1] = q[1] /\ p[2] < q[2])

\* C10: when every field has a recognized kind, the statement holds exactly
\* one column definition per field of the batch, and the definitions are in
\* the order in which the fields are first seen in the batch.
C10_OneColumnPerFieldInFirstSeenOrder ==
    QueryReturned(result) =>
        LET cols == QueryColumns IN
        /\ \A f \in FieldsOf(result.batch) :
               Cardinality({ i \in 1..Len(cols) : cols[i][1] = f }) = 1
        /\ \A i \in 1..Len(cols) : cols[i][1] \in FieldsOf(result.batch)
        /\ \A i, j \in 1..Len(cols) :
               i < j => SeenBefore(FirstSeen(result.batch, cols[i][1]),
                                   FirstSeen(result.batch, cols[j][1]))

C10_Witness ==
    /\ QueryReturned(result)
    /\ Len(result.batch) = 2
    /\ Keys(result.batch[1]) = <<"name", "id">>
    /\ Keys(result.batch[2]) = <<"id", "name", "amt">>
    /\ [i \in 1..Len(QueryColumns) |-> QueryColumns[i][1]] = <<"name", "id", "amt">>

----------------------------------------------------------------------------
(* C1, C2: the driver *)

Called(c, name) == \E i \in 1..Len(c.calls) : c.calls[i] = name

RunEnded == result.op = "execute" /\ result.status # "running"

\* C1: in every run of execute, load_transformed is not called and no bulk
\* write is made unless create_db_mysql has returned in that run; a run that
\* fails before that ends with no row written.
C1_LoadOnlyAfterCreate ==
    result.op = "execute" =>
        /\ \A i \in 1..Len(result.calls) :
               result.calls[i] \in {"load_transformed", "executemany"} =>
                   \E j \in 1..(i - 1) : result.calls[j] = "create_db_mysql.ok"
        /\ (result.status = "raised" /\ ~Called(result, "create_db_mysql.ok")) =>
               /\ pc = "idle"
               /\ ~Called(result, "executemany")
               /\ sinkRows = <<>>

C1_Witness ==
    /\ RunEnded
    /\ result.status = "raised"
    /\ Called(result, "create_db_mysql")
    /\ ~Called(result, "create_db_mysql.ok")
    /\ ~Called(result, "load_transformed")
    /\ Len(result.batch) = MaxRecords

\* errors of the store and of the sink
EnvironmentErrors == {"ServerSelectionTimeoutError", "InterfaceError", "ProgrammingError"}

AllKindsRecognized(b) ==
    LET df == DataFrame(b) IN
    \A i \in 1..Len(df) : Recognized(Lower(df[i].dtype), ClaimedPrecedence)

\* C2: a run over a batch of at least one record in which the store and
\* the sink answer every call and every kind is recognized goes through
\* FETCH, INFER, CREATE and LOAD in that order and ends in DONE, with every
\* record of the batch written.
C2_FaultFreeRunEndsDone ==
    (/\ RunEnded
     /\ Len(result.batch) > 0
     /\ result.error \notin EnvironmentErrors
     /\ AllKindsRecognized(result.batch)) =>
        /\ result.status = "returned"
        /\ Called(result, "read_from_db.ok")
        /\ Called(result, "create_db_mysql.ok")
        /\ Called(result, "load_transformed.ok")
        /\ Len(result.rows) = Len(result.batch)

----------------------------------------------------------------------------
(* C3: loading twice *)

NoDuplicates(rows) == \A i, j \in 1..Len(rows) : rows[i] = rows[j] => i = j

\* C3: a second load_transformed with the batch of the first (of at least
\* one record) completes without error and leaves the sink with the rows
\* the first call left, none of them duplicated.
C3_SecondLoadIsNoOp ==
    (/\ result.op = "load_transformed"
     /\ Len(result.batch) > 0
     /\ prev.op = "load_transformed"
     /\ prev.batch = result.batch) =>
        /\ result.status = "returned"
        /\ result.rows = prev.rows
        /\ NoDuplicates(result.rows)

----------------------------------------------------------------------------
(* C5: an unknown kind fails the whole batch *)

HasUnknownKind(b) == ~AllKindsRecognized(b)

\* C5: when a field of the batch has a kind that matches no recognized
\* substring, create_db_mysql ends with the ValueError create_query raised,
\* no statement is returned or executed on the sink, no row is written and
\* nothing is retried.
C5_UnknownKindFailsWholeBatch ==
    (result.op = "create_db_mysql" /\ HasUnknownKind(result.batch)) =>
        /\ result.status = "raised"
        /\ result.error = "ValueError"
        /\ result.value = ""
        /\ result.calls = <<>>
        /\ result.rows = <<>>

C5_Witness ==
    /\ result.op = "create_db_mysql"
    /\ HasUnknownKind(result.batch)
    /\ \E f \in StringFields(result.batch) : f # "_id"
    /\ result.status = "raised"
    /\ sinkTables = {}

----------------------------------------------------------------------------
(* C9: reading the document store *)

\* C9: read_from_db returns exactly the documents of the collection that
\* satisfy the filter, in source order: all of them for an empty filter,
\* an empty batch when none matches.
C9_ReadReturnsMatching ==
    (result.op = "read_from_db" /\ result.status = "returned") =>
        result.value = DataFrame(MongoFind(result.batch, result.arg.filters))

====
